---- MODULE Spec2Model ----
(***************************************************************************)
(* A model of xfrpc's SOCKS5 relay: the address decoder, the backend       *)
(* connector, the two protocol handlers (handle_socks5, handle_ss5) and    *)
(* the two forwarding callbacks of src/proxy_tcp.c, and the direct relay   *)
(* of src/tcp_redir.c.                                                     *)
(*                                                                         *)
(* Bytes are naturals in 0..255.  The ring buffer (stream.rx_ring) is a    *)
(* sequence of bytes whose head is the next byte to pop.  A bufferevent is *)
(* an index into bevs; NULL is 0.                                          *)
(***************************************************************************)
EXTENDS Integers, Sequences, FiniteSets, TLC

VARIABLES
    state,            \* client->state
    rb,               \* the ring buffer handed to the handlers
    local_proxy_bev,  \* client->local_proxy_bev (NULL or a bufferevent)
    remote_addr,      \* client->remote_addr
    bevs,             \* every bufferevent socks5_proxy_connect has created
    tunnel,           \* bytes the handlers handed to tmux_stream_write
    backend,          \* bytes the handlers handed to tx_ring_buffer_write
    variant,          \* the handler that serves this client's stream
    aborted,          \* "none", or why the process stopped
    narrivals,        \* how many times bytes have arrived from the tunnel
    last,             \* what the last handler call saw and did
    tcp_mux,          \* c_conf->tcp_mux
    c2s,              \* the bufferevent tcp_proxy_c2s_cb reads, and its destination
    s2c,              \* the bufferevent tcp_proxy_s2c_cb reads, and its destination
    lastfwd,          \* what the last forwarding callback saw and did
    trs               \* the direct relay: struct tcp_redir_service and its bufferevents

clientvars == <<state, rb, local_proxy_bev, remote_addr, bevs, tunnel, backend,
                variant, aborted, narrivals, last>>

fwdvars == <<tcp_mux, c2s, s2c, lastfwd>>

vars == <<clientvars, fwdvars, trs>>

----------------------------------------------------------------------------
(* Bounds of the model *)

\* Arrivals of bytes from the tunnel in one run.
MaxArrivals == 4

\* Bufferevents that socks5_proxy_connect may create in one run.
MaxBev == 2

\* Bytes that arrive at each forwarding callback's source in one run.
MaxBytes == 3

----------------------------------------------------------------------------
(* Program constants *)

NULL == 0

\* uint8_t buf[256] in parse_socks5_addr
SCRATCH_LEN == 256

Min(a, b) == IF a < b THEN a ELSE b

Take(s, n) == SubSeq(s, 1, Min(n, Len(s)))

Drop(s, n) == SubSeq(s, Min(n, Len(s)) + 1, Len(s))

\* n copies of byte b
Fill(n, b) == [i \in 1..n |-> b]

----------------------------------------------------------------------------
(* The ring buffer collaborator: rx_ring_buffer_pop(rb, data, n) moves n    *)
(* bytes from the head of rb to data.  A pop of more than rb holds is an    *)
(* underrun: the bytes that exist are moved, the rest of data keeps what    *)
(* it held (the zero-initialised scratch), and the call is marked.          *)

rx_ring_buffer_pop(ring, n) ==
    [ data     |-> Take(ring, n) \o Fill(n - Min(n, Len(ring)), 0),
      ring     |-> Drop(ring, n),
      underrun |-> n > Len(ring) ]

----------------------------------------------------------------------------
(* is_socks5 *)

is_socks5(buf, len) ==
    /\ len >= 3
    /\ buf[1] = 5
    /\ buf[2] = 1
    /\ buf[3] = 0

----------------------------------------------------------------------------
(* parse_socks5_addr.  The scratch buffer buf[SCRATCH_LEN] is indexed from  *)
(* 0 as in the source; `hi` is the highest index of buf the call writes or  *)
(* reads.  An index >= SCRATCH_LEN is outside the array: what the bytes     *)
(* stored there read back as is up to the build (ub): "intact" (the stack   *)
(* beyond buf happens to hold them), "clobbered" (something else is read    *)
(* back) or "crash" (the stack protector stops the process).                *)

UBOutcomes == {"intact", "clobbered", "crash"}

\* the byte read back from a clobbered location
ClobberByte == 170

NoAddr == [type |-> 0, addr |-> <<>>, port |-> <<0, 0>>]

\* buf[i] read back after `stored` was written there
ReadBack(i, stored, ub) ==
    IF i >= SCRATCH_LEN /\ ub = "clobbered" THEN ClobberByte ELSE stored

\* The domain-length gate of line 119.
DomainLenOk(len, domain_len) == len >= domain_len + 4

\* The default case as a decoder that pops a 6-byte body before it looks
\* at the tag would leave it.
UnknownTagMutant(ring, type, len) ==
    [ ok |-> FALSE, offset |-> 7, ring |-> Drop(ring, 6), popped |-> 7,
      underrun |-> Len(ring) < 6, hi |-> 6,
      addr |-> [NoAddr EXCEPT !.type = type], ring0 |-> <<type>> \o ring,
      len |-> len ]

\* The default case of the switch (lines 126-127): an unknown tag pops
\* nothing more.  ring is what is left once the tag byte is popped.
UnknownTag(ring, type, len) ==
    [ ok |-> FALSE, offset |-> 1, ring |-> ring, popped |-> 1,
      underrun |-> FALSE, hi |-> 0,
      addr |-> [NoAddr EXCEPT !.type = type], ring0 |-> <<type>> \o ring,
      len |-> len ]

parse_socks5_addr(ring, len, ub) ==
    LET p1   == rx_ring_buffer_pop(ring, 1)
        type == p1.data[1]
        a0   == [NoAddr EXCEPT !.type = type]
        fail == [ ok |-> FALSE, offset |-> 1, ring |-> p1.ring, popped |-> 1,
                  underrun |-> p1.underrun, hi |-> 0, addr |-> a0,
                  ring0 |-> ring, len |-> len ]
    IN
    CASE type = 1 ->
           IF len < 7 THEN fail
           ELSE LET p == rx_ring_buffer_pop(p1.ring, 6)
                IN [ ok |-> TRUE, offset |-> 7, ring |-> p.ring, popped |-> 7,
                     underrun |-> p1.underrun \/ p.underrun, hi |-> 6,
                     ring0 |-> ring, len |-> len,
                     addr |-> [type |-> type,
                               addr |-> SubSeq(p.data, 1, 4),
                               port |-> SubSeq(p.data, 5, 6)] ]
      [] type = 4 ->
           IF len < 19 THEN fail
           ELSE LET p == rx_ring_buffer_pop(p1.ring, 18)
                IN [ ok |-> TRUE, offset |-> 19, ring |-> p.ring, popped |-> 19,
                     underrun |-> p1.underrun \/ p.underrun, hi |-> 18,
                     ring0 |-> ring, len |-> len,
                     addr |-> [type |-> type,
                               addr |-> SubSeq(p.data, 1, 16),
                               port |-> SubSeq(p.data, 17, 18)] ]
      [] type = 3 ->
           IF len < 2 THEN fail
           ELSE LET pl         == rx_ring_buffer_pop(p1.ring, 1)
                    domain_len == pl.data[1]
                    fail2 == [ fail EXCEPT !.ring = pl.ring, !.popped = 2,
                                           !.underrun = p1.underrun \/ pl.underrun,
                                           !.hi = 1 ]
                IN IF ~DomainLenOk(len, domain_len) THEN fail2
                   ELSE LET p == rx_ring_buffer_pop(pl.ring, domain_len + 2)
                        IN [ ok |-> TRUE, offset |-> domain_len + 4,
                             ring |-> p.ring, popped |-> domain_len + 4,
                             underrun |-> p1.underrun \/ pl.underrun \/ p.underrun,
                             hi |-> domain_len + 3,
                             ring0 |-> ring, len |-> len,
                             addr |-> [type |-> type,
                                       addr |-> [i \in 1..domain_len |->
                                                   ReadBack(1 + i, p.data[i], ub)],
                                       port |-> [i \in 1..2 |->
                                                   ReadBack(1 + domain_len + i,
                                                            p.data[domain_len + i], ub)]] ]
      [] OTHER -> UnknownTag(p1.ring, type, len)

----------------------------------------------------------------------------
(* Bufferevents.  bevs[b].st is "none" (not created yet), "connecting",    *)
(* "connected", "freed", or "freed_twice" (bufferevent_free was called on  *)
(* it after it was freed); bevs[b].cb says whether the callbacks of line   *)
(* 209 are installed on it.                                                *)

BevIds == 1..MaxBev

Live == {"connecting", "connected"}

HasUnused(bv) == \E b \in BevIds : bv[b].st = "none"

\* bufferevent_socket_new: the next bufferevent not yet handed out
NewBev(bv) ==
    CHOOSE b \in BevIds : bv[b].st = "none" /\ \A j \in 1..(b - 1) : bv[j].st # "none"

bufferevent_free(bv, b) ==
    [bv EXCEPT ![b] = [st |-> IF bv[b].st \in Live THEN "freed" ELSE "freed_twice",
                       cb |-> FALSE]]

\* The failure paths without their bufferevent_free call.
FreeOnFailureMutant(bv, b) == bv

\* bufferevent_free(bev); return NULL; of lines 198-199 and 204-205
FreeOnFailure(bv, b) == bufferevent_free(bv, b)

\* What the connector can meet: bufferevent_socket_new returns NULL
\* ("nomem"), the connect call returns < 0 ("fail"), or it is started ("ok").
ConnOutcomes == {"nomem", "fail", "ok"}

socks5_proxy_connect(bv, addr, oc) ==
    IF oc = "nomem"
    THEN [bev |-> NULL, bevs |-> bv]
    ELSE LET b == NewBev(bv)
         IN IF addr.type \notin {1, 3, 4} \/ oc = "fail"
            THEN [bev |-> NULL,
                  bevs |-> FreeOnFailure([bv EXCEPT ![b] = [st |-> "connecting",
                                                             cb |-> FALSE]], b)]
            ELSE [bev |-> b,
                  bevs |-> [bv EXCEPT ![b] = [st |-> "connecting", cb |-> TRUE]]]

----------------------------------------------------------------------------
(* The protocol handlers.  Each is an operator from the client's fields c, *)
(* the ring buffer, len, the bufferevents and the outcomes of what it      *)
(* calls, to what the call leaves behind.                                  *)

NoParse ==
    [ ok |-> FALSE, offset |-> 0, ring |-> <<>>, popped |-> 0,
      underrun |-> FALSE, hi |-> 0, addr |-> NoAddr, ring0 |-> <<>>,
      len |-> 0 ]

\* A call that changes nothing and returns 0.
Res(c, ring, bv) ==
    [ state |-> c.state, lpb |-> c.lpb, remote_addr |-> c.remote_addr,
      ring |-> ring, bevs |-> bv, wrote |-> <<>>, fwd |-> <<>>, nret |-> 0,
      branch |-> "none", assert_ok |-> TRUE, uaf |-> FALSE, crash |-> FALSE,
      parsed |-> FALSE, parse |-> NoParse ]

\* assert(client->local_proxy_bev); tx_ring_buffer_write(local_proxy_bev, rb, len);
\* return len.  With a NULL handle the assertion fails (and without it the
\* write dereferences NULL); with a freed one the write uses freed memory.
Forward(c, ring, len, bv) ==
    [ Res(c, ring, bv) EXCEPT
        !.branch    = "forward",
        !.assert_ok = (c.lpb # NULL),
        !.crash     = (c.lpb = NULL),
        !.uaf       = (c.lpb # NULL /\ bv[c.lpb].st \notin Live),
        !.fwd       = IF c.lpb # NULL /\ bv[c.lpb].st \in Live
                      THEN Take(ring, len) ELSE <<>>,
        !.ring      = IF c.lpb # NULL THEN Drop(ring, len) ELSE ring,
        !.nret      = len ]

\* The test of line 297 with only the version byte compared.
BadGreetingMutant(buf) == buf[1] # 5

\* if (buf[0] != 0x5 || buf[1] != 0x1 || buf[2] != 0x0) of line 297
BadGreeting(buf) == buf[1] # 5 \/ buf[2] # 1 \/ buf[3] # 0

\* The reply with line 303 left out: the greeting is echoed.
GreetingReplyMutant(buf) == buf

\* buf[1] = 0x0 of line 303: the greeting 05 01 00 becomes the reply 05 00 00
GreetingReply(buf) == [buf EXCEPT ![2] = 0]

\* The value handle_socks5 returns after a connect request (line 333)
ConnectReturn(len, offset) == len

\* Lines 326-333 with the SOCKS5 success reply of the standard sent.
ConnectReplyMutant(addr) == <<5, 0, 0, 1, 0, 0, 0, 0, 0, 0>>

\* What handle_socks5 writes to the tunnel once the connector has returned
\* a bufferevent (lines 326-333): no tmux_stream_write call, so nothing.
ConnectReply(addr) == <<>>

\* The invalid-state tail of handle_socks5 (lines 336-341)
InvalidState(c, ring, bv) ==
    [ Res(c, ring, bv) EXCEPT
        !.branch = "invalid",
        !.bevs   = IF c.lpb # NULL THEN bufferevent_free(bv, c.lpb) ELSE bv ]

handle_socks5(c, ring, len, bv, oc, ub) ==
    IF c.state = "CONNECT" THEN Forward(c, ring, len, bv)
    ELSE IF c.state = "INIT" /\ len >= 3 THEN
        LET p == rx_ring_buffer_pop(ring, 3)
        IN IF BadGreeting(p.data)
           THEN [Res(c, p.ring, bv) EXCEPT !.branch = "greeting_bad"]
           ELSE [Res(c, p.ring, bv) EXCEPT !.branch = "greeting_ok",
                                           !.wrote  = GreetingReply(p.data),
                                           !.state  = "HANDSHAKE",
                                           !.nret   = 3]
    ELSE IF c.state = "HANDSHAKE" /\ len >= 10 THEN
        LET p == rx_ring_buffer_pop(ring, 3)
        IN IF ~is_socks5(p.data, 3)
           THEN [Res(c, p.ring, bv) EXCEPT !.branch = "request_bad"]
           ELSE
             LET a  == parse_socks5_addr(p.ring, len, ub)
                 r0 == [Res(c, a.ring, bv) EXCEPT
                          !.parsed = TRUE, !.parse = a, !.remote_addr = a.addr,
                          !.crash = (a.hi >= SCRATCH_LEN /\ ub = "crash")]
             IN IF ~a.ok THEN [r0 EXCEPT !.branch = "parse_fail"]
                ELSE LET k == socks5_proxy_connect(bv, a.addr, oc)
                     IN IF k.bev = NULL
                        THEN [r0 EXCEPT !.branch = "connect_fail",
                                        !.lpb = NULL, !.bevs = k.bevs]
                        ELSE [r0 EXCEPT !.branch = "connect_ok",
                                        !.lpb = k.bev, !.bevs = k.bevs,
                                        !.wrote = ConnectReply(a.addr),
                                        !.assert_ok = (len = a.offset + 3),
                                        !.nret = ConnectReturn(len, a.offset)]
    ELSE InvalidState(c, ring, bv)

handle_ss5(c, ring, len, bv, oc, ub) ==
    IF c.state = "ESTABLISHED" THEN Forward(c, ring, len, bv)
    ELSE IF c.state = "INIT" /\ len >= 7 THEN
        LET a  == parse_socks5_addr(ring, len, ub)
            r0 == [Res(c, a.ring, bv) EXCEPT
                     !.parsed = TRUE, !.parse = a, !.remote_addr = a.addr,
                     !.crash = (a.hi >= SCRATCH_LEN /\ ub = "crash")]
        IN IF ~a.ok THEN [r0 EXCEPT !.branch = "parse_fail"]
           ELSE LET k == socks5_proxy_connect(bv, a.addr, oc)
                IN IF k.bev = NULL
                   THEN [r0 EXCEPT !.branch = "connect_fail",
                                   !.lpb = NULL, !.bevs = k.bevs]
                   ELSE [r0 EXCEPT !.branch = "connect_ok",
                                   !.lpb = k.bev, !.bevs = k.bevs,
                                   !.nret = a.offset]
    ELSE [Res(c, ring, bv) EXCEPT !.branch = "idle"]

----------------------------------------------------------------------------
(* What arrives from the tunnel.  Each arrival appends one chunk to the    *)
(* ring buffer and the handler is called once with len = the bytes held.   *)

Greeting == <<5, 1, 0>>

Header == <<5, 1, 0>>

AddrIPv4 == <<1, 93, 184, 216, 34, 0, 80>>

AddrIPv6 == <<4>> \o Fill(15, 32) \o <<1>> \o <<1, 187>>

\* a domain name of n bytes: letters, never a zero byte
DomainName(n) == [i \in 1..n |-> 97 + (i % 26)]

\* a domain address of n name bytes, port 8080
AddrDomain(n) == <<3, n>> \o DomainName(n) \o <<31, 144>>

AddrUnknown == <<2, 10, 0, 0, 1, 0, 80>>

\* what a client served by handle_socks5 is sent
Socks5Chunks ==
    { Greeting,
      <<5, 2, 0>>,                      \* a greeting offering two methods
      <<9>>,                            \* a payload byte, or a fragment
      Header \o AddrIPv4,
      Header \o AddrIPv4 \o <<9>>,      \* a request with payload behind it
      Header \o AddrDomain(3),
      Header \o AddrUnknown,
      <<4, 1, 0>> \o AddrIPv4 }         \* a request of another version

\* what a client served by handle_ss5 is sent: requests without a header
Ss5Chunks ==
    { AddrIPv4,
      AddrIPv4 \o <<9>>,
      AddrDomain(3),
      AddrUnknown,
      <<9>>,
      <<1, 93, 184>> }                  \* the start of a request

Client == [state |-> state, lpb |-> local_proxy_bev, remote_addr |-> remote_addr]

NoCall ==
    [ op |-> "none", state0 |-> "INIT", lpb0 |-> NULL, in |-> <<>>, len |-> 0,
      returned |-> FALSE,
      r |-> Res([state |-> "INIT", lpb |-> NULL, remote_addr |-> NoAddr], <<>>,
                [b \in BevIds |-> [st |-> "none", cb |-> FALSE]]) ]

InitClient ==
    /\ state = "INIT"
    /\ rb = <<>>
    /\ local_proxy_bev = NULL
    /\ remote_addr = NoAddr
    /\ bevs = [b \in BevIds |-> [st |-> "none", cb |-> FALSE]]
    /\ tunnel = <<>>
    /\ backend = <<>>
    /\ variant \in {"handle_socks5", "handle_ss5"}
    /\ aborted = "none"
    /\ narrivals = 0
    /\ last = NoCall

----------------------------------------------------------------------------
(* The direct relay of src/tcp_redir.c.  trs.bev holds its bufferevents    *)
(* with the st and cb fields of bevs above; arg[b] is the bufferevent the  *)
(* callbacks of b were given as their argument, inp[b] the bytes in the    *)
(* input buffer of b and outp[b] the bytes added to its output buffer.     *)
(* reg_freed records that callbacks were registered on a bufferevent that  *)
(* had been freed, dst_freed that read_cb added bytes to the output of     *)
(* one.  Both, and a second bufferevent_free, use freed memory: the run    *)
(* either goes on or stops there (stopped).                                *)

\* Local connections the listener accepts in one run.
MaxAccepts == 2

\* trs.bev_xfrps, the bufferevent of line 127
XFRPS == 1

RedirIds == 1..(MaxAccepts + 1)

RedirUB == {"goes_on", "crash"}

\* The service as tcp_redir_worker leaves it before the event loop starts
\* (lines 120-144): bev_xfrps connecting, no callbacks set, no local
\* connection yet.
RedirStart ==
    [ bev       |-> [b \in RedirIds |->
                       IF b = XFRPS THEN [st |-> "connecting", cb |-> FALSE]
                                    ELSE [st |-> "none", cb |-> FALSE]],
      arg       |-> [b \in RedirIds |-> NULL],
      inp       |-> [b \in RedirIds |-> 0],
      outp      |-> [b \in RedirIds |-> 0],
      bev_xfrps |-> XFRPS,
      naccepts  |-> 0,
      nbytes    |-> 0,
      reg_freed |-> FALSE,
      dst_freed |-> FALSE,
      stopped   |-> FALSE ]

\* read_cb on bufferevent b: evbuffer_add_buffer moves the input of b to
\* the output of the bufferevent given as arg.
read_cb(t, b, ub) ==
    LET bev_out == t.arg[b]
    IN IF t.bev[bev_out].st \in Live
       THEN [t EXCEPT !.outp[bev_out] = @ + t.inp[b], !.inp[b] = 0]
       ELSE [t EXCEPT !.inp[b] = 0,
                      !.dst_freed = TRUE,
                      !.stopped = (ub = "crash")]

\* event_cb on bufferevent b: EOF and ERROR free b and then its partner;
\* any other event does nothing.
event_cb(t, b, events, ub) ==
    IF events \in {"EOF", "ERROR"}
    THEN LET partner == t.arg[b]
             again   == t.bev[partner].st \notin Live
         IN [t EXCEPT !.bev = bufferevent_free(bufferevent_free(t.bev, b), partner),
                      !.stopped = (again /\ ub = "crash")]
    ELSE t

\* bufferevent_socket_new of line 78: the next bufferevent not yet handed out
NewRedirBev(bv) ==
    CHOOSE b \in RedirIds : bv[b].st = "none" /\ \A j \in 1..(b - 1) : bv[j].st # "none"

\* accept_cb: mem says whether bufferevent_socket_new returns a bufferevent.
\* The new bev_in and trs->bev_xfrps are registered as each other's
\* partner, whatever has become of trs->bev_xfrps.
accept_cb(t, mem, ub) ==
    IF ~mem THEN t
    ELSE LET bev_in  == NewRedirBev(t.bev)
             bev_out == t.bev_xfrps
             freed   == t.bev[bev_out].st \notin Live
         IN [t EXCEPT !.bev[bev_in] = [st |-> "connected", cb |-> TRUE],
                      !.arg[bev_in] = bev_out,
                      !.bev[bev_out].cb = IF freed THEN @ ELSE TRUE,
                      !.arg[bev_out] = IF freed THEN @ ELSE bev_in,
                      !.reg_freed = @ \/ freed,
                      !.stopped = (freed /\ ub = "crash")]

----------------------------------------------------------------------------
(* The forwarding callbacks.  A source is the input buffer of the          *)
(* bufferevent a callback is registered on: src holds the bytes not yet    *)
(* drained, out the bytes its destination has taken, n counts the bytes    *)
(* that have arrived (byte i is the i-th to arrive), pulled those drained, *)
(* and read says whether EV_READ is enabled on the bufferevent.            *)

Numbered(a, b) == [i \in 1..(b - a + 1) |-> a + i - 1]

IdleSource == [src |-> <<>>, out |-> <<>>, n |-> 0, pulled |-> 0, read |-> TRUE]

NoEvent ==
    [cb |-> "none", mux |-> FALSE, len |-> 0, sent |-> FALSE, written |-> 0,
     disables |-> 0, read1 |-> TRUE]

FwdIdle ==
    /\ c2s = IdleSource
    /\ s2c = IdleSource
    /\ lastfwd = NoEvent

\* The stream the handlers read belongs to the multiplexed tunnel.
Init ==
    /\ InitClient
    /\ FwdIdle
    /\ tcp_mux = TRUE
    /\ trs = RedirStart

\* Lines 400-404 without the bufferevent_disable call.
ReadAfterWriteMutant(read, written, len) == read

\* Lines 400-404: a partial write disables EV_READ on the source.
ReadAfterWrite(read, written, len) == IF written < len THEN FALSE ELSE read

\* The length test left out: an empty source is handled as data.
NoDataMutant(len) == FALSE

\* if (len == 0) return; of lines 374-377 and 430-433
NoData(len) == len = 0

\* tcp_proxy_c2s_cb on source c: ctl says whether client->ctl_bev is set,
\* mem whether calloc succeeds, w how many bytes tmux_stream_write accepts.
\* bufferevent_read drains all len bytes into buf, which is freed at the end.
tcp_proxy_c2s_cb(c, ctl, mux, mem, w) ==
    LET len == Len(c.src)
        ev  == [NoEvent EXCEPT !.cb = "c2s", !.mux = mux, !.len = len,
                               !.read1 = c.read]
    IN IF ~ctl \/ NoData(len) THEN [c |-> c, ev |-> ev]
       ELSE IF ~mux
       THEN [c  |-> [c EXCEPT !.out = c.out \o c.src, !.src = <<>>,
                              !.pulled = c.pulled + len],
             ev |-> [ev EXCEPT !.sent = TRUE, !.written = len]]
       ELSE IF ~mem THEN [c |-> c, ev |-> ev]
       ELSE LET written == Min(w, len)
                read1   == ReadAfterWrite(c.read, written, len)
            IN [c  |-> [c EXCEPT !.out = c.out \o Take(c.src, written),
                                 !.src = <<>>,
                                 !.pulled = c.pulled + len,
                                 !.read = read1],
                ev |-> [ev EXCEPT !.sent = TRUE, !.written = written,
                                  !.disables = IF read1 # c.read THEN 1 ELSE 0,
                                  !.read1 = read1]]

\* tcp_proxy_s2c_cb on source c: lpb is client->local_proxy_bev.
tcp_proxy_s2c_cb(c, lpb, mux) ==
    LET len == Len(c.src)
        ev  == [NoEvent EXCEPT !.cb = "s2c", !.mux = mux, !.len = len,
                               !.read1 = c.read]
    IN IF lpb = NULL \/ NoData(len) THEN [c |-> c, ev |-> ev]
       ELSE IF ~mux
       THEN [c  |-> [c EXCEPT !.out = c.out \o c.src, !.src = <<>>,
                              !.pulled = c.pulled + len],
             ev |-> [ev EXCEPT !.sent = TRUE, !.written = len]]
       ELSE [c |-> c, ev |-> ev]

\* The callbacks run for a client whose backend connection is up.
Forwarding ==
    /\ aborted = "none"
    /\ local_proxy_bev # NULL
    /\ bevs[local_proxy_bev].st = "connected"

\* k bytes arrive in the input buffer of the bufferevent c2s is registered
\* on; libevent reads the socket only while EV_READ is enabled.
C2sArrive(k) ==
    /\ Forwarding
    /\ c2s.read
    /\ c2s.n + k <= MaxBytes
    /\ c2s' = [c2s EXCEPT !.src = c2s.src \o Numbered(c2s.n + 1, c2s.n + k),
                          !.n = c2s.n + k]
    /\ UNCHANGED <<clientvars, tcp_mux, s2c, lastfwd, trs>>

\* libevent runs the read callback, only while EV_READ is enabled.
C2sCb(mem, w) ==
    /\ Forwarding
    /\ c2s.read
    /\ LET r == tcp_proxy_c2s_cb(c2s, TRUE, tcp_mux, mem, w)
       IN /\ c2s' = r.c
          /\ lastfwd' = r.ev
    /\ UNCHANGED <<clientvars, tcp_mux, s2c, trs>>

\* The drain notification of the stream re-enables reading.
Drain ==
    /\ Forwarding
    /\ ~c2s.read
    /\ c2s' = [c2s EXCEPT !.read = TRUE]
    /\ UNCHANGED <<clientvars, tcp_mux, s2c, lastfwd, trs>>

S2cArrive(k) ==
    /\ Forwarding
    /\ s2c.n + k <= MaxBytes
    /\ s2c' = [s2c EXCEPT !.src = s2c.src \o Numbered(s2c.n + 1, s2c.n + k),
                          !.n = s2c.n + k]
    /\ UNCHANGED <<clientvars, tcp_mux, c2s, lastfwd, trs>>

S2cCb ==
    /\ Forwarding
    /\ LET r == tcp_proxy_s2c_cb(s2c, local_proxy_bev, tcp_mux)
       IN /\ s2c' = r.c
          /\ lastfwd' = r.ev
    /\ UNCHANGED <<clientvars, tcp_mux, c2s, trs>>

\* The call op leaves R behind: the client's fields, the ring buffer, the
\* bufferevents and what was written.  A failed assertion is recorded in
\* R.assert_ok and the run goes on as the build with NDEBUG does (the build
\* without it stops there); a NULL dereference or a tripped stack protector
\* stops either build.
Apply(op, ring0, R) ==
    LET stop == IF R.crash THEN "crash" ELSE "none"
    IN /\ state' = R.state
       /\ rb' = R.ring
       /\ local_proxy_bev' = R.lpb
       /\ remote_addr' = R.remote_addr
       /\ bevs' = R.bevs
       /\ tunnel' = tunnel \o R.wrote
       /\ backend' = backend \o R.fwd
       /\ aborted' = stop
       /\ last' = [ op |-> op, state0 |-> state, lpb0 |-> local_proxy_bev,
                    in |-> ring0, len |-> Len(ring0),
                    returned |-> (stop = "none"), r |-> R ]
       /\ narrivals' = narrivals + 1
       /\ UNCHANGED <<variant, fwdvars, trs>>

\* The connector can start a connection only while the model has a
\* bufferevent left to hand out.
CanArrive(m, oc) ==
    /\ aborted = "none"
    /\ Len(m) > 0
    /\ narrivals < MaxArrivals
    /\ oc # "nomem" => HasUnused(bevs)

\* Bytes m arrive on the stream of a client served by handle_socks5.
HandleSocks5(m, oc, ub) ==
    /\ variant = "handle_socks5"
    /\ CanArrive(m, oc)
    /\ Apply("handle_socks5", rb \o m,
             handle_socks5(Client, rb \o m, Len(rb \o m), bevs, oc, ub))

\* Bytes m arrive on the stream of a client served by handle_ss5.
HandleSs5(m, oc, ub) ==
    /\ variant = "handle_ss5"
    /\ CanArrive(m, oc)
    /\ Apply("handle_ss5", rb \o m,
             handle_ss5(Client, rb \o m, Len(rb \o m), bevs, oc, ub))

\* The state in which the client's handler forwards payload.
EstablishedState == IF variant = "handle_socks5" THEN "CONNECT" ELSE "ESTABLISHED"

\* The event callback installed at line 209 is told that the connection of
\* bufferevent b is up, and the client moves to its established state.
Connected(b) ==
    /\ aborted = "none"
    /\ bevs[b].st = "connecting"
    /\ bevs[b].cb
    /\ bevs' = [bevs EXCEPT ![b].st = "connected"]
    /\ state' = EstablishedState
    /\ UNCHANGED <<rb, local_proxy_bev, remote_addr, tunnel, backend, variant,
                   aborted, narrivals, last, fwdvars, trs>>

Next ==
    \/ \E m \in Socks5Chunks, oc \in ConnOutcomes, ub \in UBOutcomes :
          HandleSocks5(m, oc, ub)
    \/ \E m \in Ss5Chunks, oc \in ConnOutcomes, ub \in UBOutcomes :
          HandleSs5(m, oc, ub)
    \/ \E b \in BevIds : Connected(b)

Spec == Init /\ [][Next]_vars

----------------------------------------------------------------------------
(* The decoder on its whole input range: the first address a client is     *)
(* sent, through handle_ss5 in INIT (len = the bytes held) and through     *)
(* handle_socks5 in HANDSHAKE behind an accepted greeting (len = the bytes *)
(* held before the 3-byte header was popped).                              *)

\* the domain lengths tried, up to the largest a length byte can hold
DomainLens == {0, 1, 3, 63, 252, 253, 254, 255}

UnknownTags == (0..255) \ {1, 3, 4}

CodecInputs ==
    { AddrIPv4, AddrIPv4 \o <<9>>, AddrIPv6, AddrIPv6 \o <<9>>, Take(AddrIPv6, 18) }
    \cup { AddrDomain(n) : n \in DomainLens }
    \cup { AddrDomain(n) \o <<9, 9, 9>> : n \in DomainLens }
    \cup { Take(AddrDomain(n), n + 3) : n \in DomainLens }     \* one byte short
    \cup { <<t, 10, 0, 0, 1, 31, 144>> : t \in UnknownTags }

CodecSs5(m, oc, ub) ==
    /\ narrivals = 0
    /\ HandleSs5(m, oc, ub)

CodecGreeting ==
    /\ narrivals = 0
    /\ HandleSocks5(Greeting, "nomem", "intact")

CodecSocks5(m, oc, ub) ==
    /\ narrivals = 1
    /\ state = "HANDSHAKE"
    /\ HandleSocks5(Header \o m, oc, ub)

NextCodec ==
    \/ \E m \in CodecInputs, oc \in ConnOutcomes, ub \in UBOutcomes : CodecSs5(m, oc, ub)
    \/ CodecGreeting
    \/ \E m \in CodecInputs, oc \in ConnOutcomes, ub \in UBOutcomes : CodecSocks5(m, oc, ub)

SpecCodec == Init /\ [][NextCodec]_vars

----------------------------------------------------------------------------
(* The forwarding callbacks of a client whose backend connection has been  *)
(* opened by its first request, with and without multiplexing.             *)

InitFwd ==
    /\ InitClient
    /\ FwdIdle
    /\ tcp_mux \in BOOLEAN
    /\ trs = RedirStart

FwdOpen ==
    /\ narrivals = 0
    /\ HandleSs5(AddrIPv4, "ok", "intact")

NextFwd ==
    \/ FwdOpen
    \/ \E b \in BevIds : Connected(b)
    \/ \E k \in 1..2 : C2sArrive(k)
    \/ \E mem \in BOOLEAN, w \in 0..MaxBytes : C2sCb(mem, w)
    \/ Drain
    \/ \E k \in 1..2 : S2cArrive(k)
    \/ S2cCb

SpecFwd == InitFwd /\ [][NextFwd]_vars

----------------------------------------------------------------------------
(* The event loop of the direct relay: the listener accepts local          *)
(* connections, bytes arrive, and libevent runs the callbacks of the       *)
(* bufferevents that have them and have not been freed.                    *)

InitRedir ==
    /\ InitClient
    /\ FwdIdle
    /\ tcp_mux = FALSE
    /\ trs = RedirStart

RedirRunning == ~trs.stopped

\* The listener accepts a local connection.
Accept(mem, ub) ==
    /\ RedirRunning
    /\ trs.naccepts < MaxAccepts
    /\ trs' = [accept_cb(trs, mem, ub) EXCEPT !.naccepts = @ + 1]
    /\ UNCHANGED <<clientvars, fwdvars>>

\* A byte arrives in the input buffer of a connected bufferevent that is
\* enabled for reading (line 88, 89).
RedirArrive(b) ==
    /\ RedirRunning
    /\ trs.bev[b].st = "connected"
    /\ trs.bev[b].cb
    /\ trs.nbytes < MaxBytes
    /\ trs' = [trs EXCEPT !.inp[b] = @ + 1, !.nbytes = @ + 1]
    /\ UNCHANGED <<clientvars, fwdvars>>

\* libevent runs the read callback of b.
RedirRead(b, ub) ==
    /\ RedirRunning
    /\ trs.bev[b].st = "connected"
    /\ trs.bev[b].cb
    /\ trs.inp[b] > 0
    /\ trs' = read_cb(trs, b, ub)
    /\ UNCHANGED <<clientvars, fwdvars>>

\* The connect of line 132 completes; event_cb is told when it is set.
RedirConnected(ub) ==
    /\ RedirRunning
    /\ trs.bev[XFRPS].st = "connecting"
    /\ LET t == IF trs.bev[XFRPS].cb THEN event_cb(trs, XFRPS, "CONNECTED", ub) ELSE trs
       IN trs' = [t EXCEPT !.bev[XFRPS].st = "connected"]
    /\ UNCHANGED <<clientvars, fwdvars>>

\* The peer of b closes, or its socket fails: libevent runs event_cb of b.
RedirEvent(b, events, ub) ==
    /\ RedirRunning
    /\ trs.bev[b].st \in Live
    /\ trs.bev[b].cb
    /\ trs' = event_cb(trs, b, events, ub)
    /\ UNCHANGED <<clientvars, fwdvars>>

NextRedir ==
    \/ \E mem \in BOOLEAN, ub \in RedirUB : Accept(mem, ub)
    \/ \E b \in RedirIds : RedirArrive(b)
    \/ \E b \in RedirIds, ub \in RedirUB : RedirRead(b, ub)
    \/ \E ub \in RedirUB : RedirConnected(ub)
    \/ \E b \in RedirIds, events \in {"EOF", "ERROR"}, ub \in RedirUB :
          RedirEvent(b, events, ub)

SpecRedir == InitRedir /\ [][NextRedir]_vars

----------------------------------------------------------------------------
(* The claims about the protocol handlers, checked under Spec.             *)

LastIs(op, st) == last.op = op /\ last.state0 = st

\* C1: handle_socks5 called in INIT with at least 3 bytes whose first three
\* are 05 01 00 writes the reply 05 00 00 to the tunnel, moves to HANDSHAKE,
\* returns 3 and has popped exactly those 3 bytes from the ring buffer.
C1_GreetingAccepted ==
    ( /\ LastIs("handle_socks5", "INIT")
      /\ last.len >= 3
      /\ SubSeq(last.in, 1, 3) = <<5, 1, 0>> )
    => /\ last.r.wrote = <<5, 0, 0>>
       /\ last.r.state = "HANDSHAKE"
       /\ last.returned
       /\ last.r.nret = 3
       /\ last.r.ring = SubSeq(last.in, 4, last.len)

\* C1's case: a greeting accepted with more bytes behind it in the buffer.
C1_Witness ==
    /\ LastIs("handle_socks5", "INIT")
    /\ last.len > 3
    /\ SubSeq(last.in, 1, 3) = <<5, 1, 0>>
    /\ last.r.nret = 3
    /\ tunnel = <<5, 0, 0>>

\* C2: handle_socks5 called in HANDSHAKE with a well-formed connect request
\* and a connector that succeeds leaves the client in CONNECT, so that later
\* arrivals are payload.
C2_ConnectLeavesEstablished ==
    ( /\ LastIs("handle_socks5", "HANDSHAKE")
      /\ last.r.branch = "connect_ok" )
    => last.r.state = "CONNECT"

\* C3: for every len >= 10 in HANDSHAKE a successful handle_socks5 call
\* returns 3 + the decoder's consumed count and trips no assertion.
C3_ReturnsHeaderPlusConsumed ==
    ( /\ LastIs("handle_socks5", "HANDSHAKE")
      /\ last.len >= 10
      /\ last.r.branch = "connect_ok" )
    => /\ last.r.assert_ok
       /\ last.r.nret = 3 + last.r.parse.offset

C5_FreedAtMostOnce ==
    /\ \A b \in BevIds : bevs[b].st # "freed_twice"
    /\ (last.r.branch = "invalid" /\ last.lpb0 # NULL) => last.r.lpb = NULL

\* C11: handle_ss5 called in INIT with at least 7 bytes that hold a valid
\* address, and a connector that succeeds, leaves the client in ESTABLISHED
\* and returns the decoder's consumed count, so that the next arrival is
\* forwarded as payload and not decoded as another address.
C11_Ss5ConnectEstablishes ==
    ( /\ LastIs("handle_ss5", "INIT")
      /\ last.len >= 7
      /\ last.r.branch = "connect_ok" )
    => /\ last.r.state = "ESTABLISHED"
       /\ last.r.nret = last.r.parse.offset

\* C12: every step of a client served by handle_socks5 appends to the
\* tunnel exactly the reply 05 00 00 when the step is a call in INIT with
\* at least 3 bytes that start 05 01 00, and nothing otherwise: the connect
\* request and every failure path write no reply.
C12_OnlyGreetingReply ==
    [][ variant = "handle_socks5" =>
          tunnel' = tunnel \o
            (IF /\ narrivals' # narrivals
                /\ last'.state0 = "INIT"
                /\ last'.len >= 3
                /\ SubSeq(last'.in, 1, 3) = <<5, 1, 0>>
             THEN <<5, 0, 0>>
             ELSE <<>>) ]_vars

\* C12's case: a connect request accepted behind a greeting and a failed
\* request, the greeting reply being all the tunnel has been handed.
C12_Witness ==
    /\ last.op = "handle_socks5"
    /\ last.r.branch = "connect_ok"
    /\ narrivals = 3
    /\ tunnel = <<5, 0, 0>>

\* C14: a handle_socks5 call with too little data for its state (INIT with
\* fewer than 3 bytes, HANDSHAKE with fewer than 10) returns 0 and changes
\* nothing: the ring buffer, the state, the tunnel, the backend handle and
\* every bufferevent are as they were before the call.
C14_ShortCallChangesNothing ==
    [][ ( /\ narrivals' # narrivals
          /\ last'.op = "handle_socks5"
          /\ \/ last'.state0 = "INIT" /\ last'.len < 3
             \/ last'.state0 = "HANDSHAKE" /\ last'.len < 10 )
        => /\ last'.r.nret = 0
           /\ rb' = last'.in
           /\ state' = state
           /\ tunnel' = tunnel
           /\ local_proxy_bev' = local_proxy_bev
           /\ bevs' = bevs ]_vars

\* The last call was a connect request in HANDSHAKE that failed: a bad
\* version/command/reserved triple, a decode failure or a connector failure.
FailedRequest ==
    /\ LastIs("handle_socks5", "HANDSHAKE")
    /\ last.r.branch \in {"request_bad", "parse_fail", "connect_fail"}

\* C16: a handle_socks5 call in HANDSHAKE that fails returns 0, does not
\* move the state back to INIT and leaves the client with no backend
\* handle; and the failure is terminal: the arrival that follows it neither
\* opens a backend connection nor forwards payload.
C16_HandshakeFailureTerminal ==
    /\ []( FailedRequest
           => /\ last.r.nret = 0
              /\ last.r.state # "INIT"
              /\ last.r.lpb = NULL )
    /\ [][ (FailedRequest /\ narrivals' # narrivals)
           => last'.r.branch \notin {"connect_ok", "forward"} ]_vars

\* C17: handle_socks5 called in INIT with at least 3 bytes whose first
\* three are not 05 01 00 pops those 3 bytes, writes nothing to the tunnel,
\* stays in INIT and returns 0.
C17_BadGreetingConsumed ==
    ( /\ LastIs("handle_socks5", "INIT")
      /\ last.len >= 3
      /\ SubSeq(last.in, 1, 3) # <<5, 1, 0>> )
    => /\ last.r.ring = SubSeq(last.in, 4, last.len)
       /\ last.r.wrote = <<>>
       /\ last.r.state = "INIT"
       /\ last.returned
       /\ last.r.nret = 0

\* C17's case: a greeting offering two methods, behind a stray byte, has
\* been popped as 09 05 02 and its last byte is left in the ring buffer.
C17_Witness ==
    /\ LastIs("handle_socks5", "INIT")
    /\ last.in = <<9, 5, 2, 0>>
    /\ rb = <<0>>
    /\ state = "INIT"
    /\ tunnel = <<>>

\* the address types the connector is tried on
ConnectTypes == {0, 1, 2, 3, 4, 5, 255}

\* C18: socks5_proxy_connect, when the connect call returns a negative
\* result or the address type is not 01, 03 or 04, frees the bufferevent it
\* created exactly once, installs no callbacks on it and returns NULL; and
\* a handler call that meets such a failure ends with no backend handle
\* and returns 0.
C18_ConnectFailureReleases ==
    /\ []( HasUnused(bevs) =>
             \A t \in ConnectTypes, oc \in {"fail", "ok"} :
                (t \notin {1, 3, 4} \/ oc = "fail") =>
                   LET k == socks5_proxy_connect(bevs, [NoAddr EXCEPT !.type = t], oc)
                   IN /\ k.bev = NULL
                      /\ k.bevs = [bevs EXCEPT ![NewBev(bevs)] =
                                                [st |-> "freed", cb |-> FALSE]] )
    /\ [][ ( /\ narrivals' # narrivals
             /\ last'.r.branch = "connect_fail"
             /\ bevs' # bevs )
           => /\ bevs' = [bevs EXCEPT ![NewBev(bevs)] = [st |-> "freed", cb |-> FALSE]]
              /\ local_proxy_bev' = NULL
              /\ last'.r.nret = 0 ]_vars

\* C18's case: a connect request behind an accepted greeting whose connect
\* call failed: the bufferevent made for it is freed, the handle is NULL.
C18_Witness ==
    /\ LastIs("handle_socks5", "HANDSHAKE")
    /\ last.r.branch = "connect_fail"
    /\ bevs[1] = [st |-> "freed", cb |-> FALSE]
    /\ bevs[2].st = "none"
    /\ local_proxy_bev = NULL

\* The client holds a backend connection that has not been freed.
Held ==
    /\ local_proxy_bev # NULL
    /\ bevs[local_proxy_bev].st \in Live

\* C20: a client holds at most one backend connection: every bufferevent
\* that is open is the one local_proxy_bev refers to, and a handler call
\* made while a backend connection is held and unfreed creates no
\* bufferevent and overwrites neither remote_addr nor the handle.
C20_AtMostOneBackend ==
    /\ [](\A b \in BevIds : bevs[b].st \in Live => b = local_proxy_bev)
    /\ [][ (Held /\ narrivals' # narrivals)
           => /\ local_proxy_bev' = local_proxy_bev
              /\ remote_addr' = remote_addr
              /\ \A b \in BevIds : bevs[b].st = "none" => bevs'[b].st = "none" ]_vars

----------------------------------------------------------------------------
(* The claims about parse_socks5_addr, checked under SpecCodec.            *)

Parsed == last.r.parsed

P == last.r.parse

\* The address re-encoded from what the decoder stored: the type, the
\* address bytes and the 2 port bytes as they lie in memory.  The structure
\* keeps no domain length, so a domain is as long as the C string in addr.
CStrLen(a) ==
    IF \E i \in 1..Len(a) : a[i] = 0
    THEN (CHOOSE i \in 1..Len(a) : a[i] = 0 /\ \A j \in 1..(i - 1) : a[j] # 0) - 1
    ELSE Len(a)

Encode(a) ==
    <<a.type>>
    \o (IF a.type = 3 THEN <<CStrLen(a.addr)>> \o Take(a.addr, CStrLen(a.addr))
        ELSE a.addr)
    \o a.port

\* The length of the valid address encoding at the head of ring, 0 if none.
ValidEncodingLen(ring) ==
    IF Len(ring) = 0 THEN 0
    ELSE CASE ring[1] = 1 -> IF Len(ring) >= 7 THEN 7 ELSE 0
           [] ring[1] = 4 -> IF Len(ring) >= 19 THEN 19 ELSE 0
           [] ring[1] = 3 -> IF Len(ring) >= 2 /\ Len(ring) >= ring[2] + 4
                             THEN ring[2] + 4 ELSE 0
           [] OTHER -> 0

\* C8: for every domain length byte the decoder stays inside its scratch
\* buffer, and a domain whose length byte L has len < L + 4 is rejected.
C8_ScratchInBounds ==
    Parsed =>
      /\ P.hi < SCRATCH_LEN
      /\ (P.ring0[1] = 3 /\ Len(P.ring0) >= 2 /\ P.len < P.ring0[2] + 4) => ~P.ok

\* C9: an address-type byte other than 01, 03, 04 makes the decoder fail
\* with offset 1, having popped the tag byte and nothing else.
C9_UnknownTagRejected ==
    (Parsed /\ P.ring0[1] \notin {1, 3, 4})
    => /\ ~P.ok
       /\ P.offset = 1
       /\ P.popped = 1
       /\ P.ring = Tail(P.ring0)

\* C9's case: tag ff decoded behind a request header, six bytes left behind.
C9_Witness ==
    /\ last.op = "handle_socks5"
    /\ Parsed
    /\ P.ring0[1] = 255
    /\ P.offset = 1
    /\ rb = <<10, 0, 0, 1, 31, 144>>

\* C10: decoding a valid IPv4, IPv6 or domain encoding (domain length
\* 0..255) and re-encoding what was decoded gives the original bytes.
C10_RoundTrip ==
    (Parsed /\ ValidEncodingLen(P.ring0) > 0)
    => /\ last.returned
       /\ P.ok
       /\ Encode(P.addr) = Take(P.ring0, ValidEncodingLen(P.ring0))

\* The bytes the last handler call asked rx_ring_buffer_pop for: the
\* 3-byte header of handle_socks5 and what parse_socks5_addr popped.
PoppedByCall ==
    (IF last.r.branch \in {"greeting_bad", "greeting_ok", "request_bad"} \/
        (Parsed /\ last.op = "handle_socks5")
     THEN 3 ELSE 0)
    + (IF Parsed THEN P.popped ELSE 0)

\* C15: a handle_socks5 or handle_ss5 call pops no more bytes from the ring
\* buffer than the len it was called with, and an address is decoded only
\* from bytes the ring buffer holds behind the header.
C15_PopsWithinLen ==
    last.op \in {"handle_socks5", "handle_ss5"}
    => /\ PoppedByCall <= last.len
       /\ Parsed => ~P.underrun
       /\ (Parsed /\ P.ok) => P.offset <= Len(P.ring0)

----------------------------------------------------------------------------
(* The claims about the forwarding callbacks, checked under SpecFwd.       *)

\* C6: in multiplexed mode a tcp_proxy_c2s_cb event whose stream write takes
\* fewer bytes than offered disables reading on the source once, and no
\* byte is pulled from the source while reading is disabled; a write that
\* takes every byte leaves reading enabled.
C6_Backpressure ==
    /\ []( (lastfwd.cb = "c2s" /\ lastfwd.mux /\ lastfwd.sent)
           => IF lastfwd.written < lastfwd.len
              THEN lastfwd.disables = 1 /\ ~lastfwd.read1
              ELSE lastfwd.disables = 0 /\ lastfwd.read1 )
    /\ [][ ~c2s.read => (c2s'.pulled = c2s.pulled /\ c2s'.src = c2s.src) ]_vars

\* C6's case: a write of 2 bytes of which 1 is taken has disabled reading.
C6_Witness ==
    /\ lastfwd.cb = "c2s"
    /\ lastfwd.mux
    /\ lastfwd.len = 2
    /\ lastfwd.written = 1
    /\ ~c2s.read

\* C7: in each direction what the destination has been handed, followed by
\* what the source still holds, is the bytes that arrived, in arrival
\* order: nothing is dropped, duplicated or reordered.
C7_InOrderNoLoss ==
    /\ c2s.out \o c2s.src = Numbered(1, c2s.n)
    /\ s2c.out \o s2c.src = Numbered(1, s2c.n)

\* C13: a tcp_proxy_c2s_cb or tcp_proxy_s2c_cb call that finds its source
\* empty, with or without multiplexing, writes nothing, leaves reading
\* enabled, and changes neither a source nor any field of the client.
C13_ZeroLengthNoOp ==
    /\ []( (lastfwd.cb # "none" /\ lastfwd.len = 0)
           => /\ ~lastfwd.sent
              /\ lastfwd.written = 0
              /\ lastfwd.disables = 0
              /\ lastfwd.read1 )
    /\ [][ (lastfwd' # lastfwd /\ lastfwd'.len = 0)
           => /\ c2s' = c2s
              /\ s2c' = s2c
              /\ clientvars' = clientvars ]_vars

\* C13's case: tcp_proxy_c2s_cb has run on an empty source in multiplexed
\* mode, after every byte that had arrived was handed on.
C13_Witness ==
    /\ lastfwd.cb = "c2s"
    /\ lastfwd.mux
    /\ lastfwd.len = 0
    /\ c2s.n > 0
    /\ c2s.out = Numbered(1, c2s.n)
    /\ c2s.read

\* C19: once tcp_proxy_s2c_cb has run with data in its source while
\* multiplexing is enabled, no byte has been forwarded and the client's
\* backend connection is torn down: it is not left live with the bytes
\* still in its input buffer.
C19_MuxS2cTearsDown ==
    (lastfwd.cb = "s2c" /\ lastfwd.mux /\ lastfwd.len > 0)
    => /\ ~lastfwd.sent
       /\ s2c.out = <<>>
       /\ \/ local_proxy_bev = NULL
          \/ bevs[local_proxy_bev].st \notin Live

----------------------------------------------------------------------------
(* The claim about the direct relay, checked under SpecRedir.              *)

\* C21: over any sequence of accepts and EOF/error events on the local
\* connections and the shared upstream connection, no bufferevent is freed
\* more than once, no freed bufferevent is given bytes to forward, and none
\* is registered again for a newly accepted local connection.
C21_RelayFreesOnce ==
    /\ \A b \in RedirIds : trs.bev[b].st # "freed_twice"
    /\ ~trs.dst_freed
    /\ ~trs.reg_freed

====
